---- MODULE Spec2Model ----
(***************************************************************************)
(* Model of the Caddy i18n template extension (package i18n).              *)
(*                                                                         *)
(* Strings whose content the code inspects (translation keys, language     *)
(* texts, string arguments) are sequences of one-character strings, so     *)
(* that the regular expression \{(\d+)\}, strings.Trim, strconv.Atoi,      *)
(* strings.HasPrefix/TrimPrefix and fmt.Sprint are computed, not assumed.  *)
(* Language codes and file paths are only compared for equality and are    *)
(* plain strings.  A Go map is a function; a nil map reads like an empty   *)
(* map and is the empty function.                                          *)
(***************************************************************************)
EXTENDS Integers, Sequences, FiniteSets, TLC

\* Largest number of variadic arguments of one i18nTranslate call.
MaxArgs == 2

-----------------------------------------------------------------------------
(* Characters and strings *)

DigitChars == <<"0", "1", "2", "3", "4", "5", "6", "7", "8", "9">>

IsDigit(c) == \E d \in 1..10 : DigitChars[d] = c

DigitVal(c) == (CHOOSE d \in 1..10 : DigitChars[d] = c) - 1

\* The empty map (also a nil map) and the empty string.
EmptyMap == <<>>
EmptyStr == <<>>

\* The reserved prefix "i18n:" of a nested reference.
I18nPrefix == <<"i", "1", "8", "n", ":">>

\* strings.HasPrefix(s, prefix)
HasPrefix(s, prefix) ==
    /\ Len(s) >= Len(prefix)
    /\ SubSeq(s, 1, Len(prefix)) = prefix

\* strings.TrimPrefix(s, prefix)
TrimPrefix(s, prefix) ==
    IF HasPrefix(s, prefix) THEN SubSeq(s, Len(prefix) + 1, Len(s)) ELSE s

\* strings.Trim(s, cutset): drop every leading and trailing character of cutset.
RECURSIVE TrimLeft(_, _)
TrimLeft(s, cutset) ==
    IF s # <<>> /\ Head(s) \in cutset THEN TrimLeft(Tail(s), cutset) ELSE s

RECURSIVE TrimRight(_, _)
TrimRight(s, cutset) ==
    IF s # <<>> /\ s[Len(s)] \in cutset
    THEN TrimRight(SubSeq(s, 1, Len(s) - 1), cutset)
    ELSE s

Trim(s, cutset) == TrimRight(TrimLeft(s, cutset), cutset)

-----------------------------------------------------------------------------
(* strconv.Atoi on a string of decimal digits (64-bit int) *)

\* math.MaxInt64 = 9223372036854775807, as its decimal digits.
MaxInt64Digits ==
    <<"9", "2", "2", "3", "3", "7", "2", "0", "3", "6", "8", "5", "4", "7",
      "7", "5", "8", "0", "7">>

\* Two digit strings of the same length, compared as numbers.
RECURSIVE DigitsGreater(_, _)
DigitsGreater(a, b) ==
    IF a = <<>> THEN FALSE
    ELSE IF DigitVal(Head(a)) # DigitVal(Head(b))
         THEN DigitVal(Head(a)) > DigitVal(Head(b))
         ELSE DigitsGreater(Tail(a), Tail(b))

\* Atoi fails with a range error exactly when the value exceeds MaxInt64.
AtoiErr(ds) ==
    LET z == TrimLeft(ds, {"0"})
    IN  \/ Len(z) > Len(MaxInt64Digits)
        \/ Len(z) = Len(MaxInt64Digits) /\ DigitsGreater(z, MaxInt64Digits)

\* The value is only ever compared with len(args) <= MaxArgs, so the
\* accumulation saturates just above that: every value >= AtoiSat stands for
\* itself in the comparison idx >= len(args).
AtoiSat == MaxArgs + 1

RECURSIVE AtoiAcc(_, _)
AtoiAcc(ds, n) ==
    IF ds = <<>> THEN n
    ELSE LET m == n * 10 + DigitVal(Head(ds))
         IN  AtoiAcc(Tail(ds), IF m > AtoiSat THEN AtoiSat ELSE m)

Atoi(ds) == [err |-> AtoiErr(ds), val |-> AtoiAcc(ds, 0)]

-----------------------------------------------------------------------------
(* fmt.Sprint of a non-string argument *)

\* NatDigits with the digits in the order the division produces them.
RECURSIVE NatDigitsReversed(_)
NatDigitsReversed(n) ==
    IF n < 10 THEN <<DigitChars[n + 1]>>
    ELSE <<DigitChars[(n % 10) + 1]>> \o NatDigitsReversed(n \div 10)

RECURSIVE NatDigits(_)
NatDigits(n) ==
    IF n < 10 THEN <<DigitChars[n + 1]>>
    ELSE NatDigits(n \div 10) \o <<DigitChars[(n % 10) + 1]>>

\* Arguments are tagged with their dynamic Go type.
StrArg(s) == [kind |-> "string", s |-> s]
IntArg(n) == [kind |-> "int", n |-> n]

Sprint(arg) ==
    CASE arg.kind = "int" ->
            IF arg.n < 0 THEN <<"-">> \o NatDigits(0 - arg.n) ELSE NatDigits(arg.n)
      [] arg.kind = "string" -> arg.s

-----------------------------------------------------------------------------
(* interpolateTranslations *)

\* The callback with an invalid index replaced by the empty string.
ReplacementDropsInvalid(tr, lang, args, match) ==
    LET numStr == Trim(match, {"{", "}"})
        a      == Atoi(numStr)
    IN  IF a.err \/ a.val >= Len(args) THEN <<>>
        ELSE LET arg == args[a.val + 1]
             IN  IF arg.kind = "string"
                 THEN IF HasPrefix(arg.s, I18nPrefix)
                      THEN LET translationKey == TrimPrefix(arg.s, I18nPrefix)
                           IN  IF translationKey \in DOMAIN tr
                               THEN LET entry == tr[translationKey]
                                    IN  IF lang \in DOMAIN entry THEN entry[lang]
                                        ELSE IF "en" \in DOMAIN entry THEN entry["en"]
                                        ELSE translationKey
                               ELSE translationKey
                      ELSE arg.s
                 ELSE Sprint(arg)

\* The replacement callback handed to ReplaceAllStringFunc: the text that
\* takes the place of one match {N}.
Replacement(tr, lang, args, match) ==
    LET numStr == Trim(match, {"{", "}"})
        a      == Atoi(numStr)
    IN  IF a.err \/ a.val >= Len(args) THEN match
        ELSE LET arg == args[a.val + 1]
             IN  IF arg.kind = "string"
                 THEN IF HasPrefix(arg.s, I18nPrefix)
                      THEN LET translationKey == TrimPrefix(arg.s, I18nPrefix)
                           IN  IF translationKey \in DOMAIN tr
                               THEN LET entry == tr[translationKey]
                                    IN  IF lang \in DOMAIN entry THEN entry[lang]
                                        ELSE IF "en" \in DOMAIN entry THEN entry["en"]
                                        ELSE translationKey
                               ELSE translationKey
                      ELSE arg.s
                 ELSE Sprint(arg)

\* The index just past the longest run of digits of s that starts at q.
RECURSIVE SkipDigits(_, _)
SkipDigits(s, q) ==
    IF q <= Len(s) /\ IsDigit(s[q]) THEN SkipDigits(s, q + 1) ELSE q

\* The regular expression \{(\d+)\} tried at position p of s: the index of
\* the closing brace of the match, or 0 when there is no match at p.
MatchEnd(s, p) ==
    IF s[p] # "{" THEN 0
    ELSE LET q == SkipDigits(s, p + 1)
         IN  IF q > p + 1 /\ q <= Len(s) /\ s[q] = "}" THEN q ELSE 0

\* regexp.ReplaceAllStringFunc from position p on: leftmost matches, not
\* overlapping, each replaced by the callback's result, which is appended to
\* the output and not scanned.
RECURSIVE ReplaceAllFrom(_, _, _, _, _)
ReplaceAllFrom(tr, lang, args, s, p) ==
    IF p > Len(s) THEN <<>>
    ELSE LET e == MatchEnd(s, p)
         IN  IF e = 0
             THEN <<s[p]>> \o ReplaceAllFrom(tr, lang, args, s, p + 1)
             ELSE Replacement(tr, lang, args, SubSeq(s, p, e))
                      \o ReplaceAllFrom(tr, lang, args, s, e + 1)

\* interpolateTranslations with a second pass over its own output.
interpolateTwice(tr, tmpl, lang, args) ==
    ReplaceAllFrom(tr, lang, args, ReplaceAllFrom(tr, lang, args, tmpl, 1), 1)

interpolateTranslations(tr, tmpl, lang, args) ==
    ReplaceAllFrom(tr, lang, args, tmpl, 1)

-----------------------------------------------------------------------------
(* The template function i18nTranslate *)

LogKeyNotFound == "translation key not found, using key as fallback"
LogNoTranslation == "no translation for requested language or 'en', using key as fallback"
LogFallbackEn == "requested language not found, falling back to 'en'"

\* What a logger call appends to the log: nothing when i.logger is nil.
Emit(lg, msg) == IF lg # "nil" THEN <<msg>> ELSE <<>>

\* SelectText with the missing key treated as its own template.
SelectTextKeyAsTemplate(tr, key, lang) ==
    IF key \notin DOMAIN tr THEN [path |-> "en", val |-> key]
    ELSE LET entry == tr[key]
         IN  IF lang \in DOMAIN entry THEN [path |-> "lang", val |-> entry[lang]]
             ELSE IF "en" \in DOMAIN entry THEN [path |-> "en", val |-> entry["en"]]
             ELSE [path |-> "none", val |-> key]

\* SelectText with "en" preferred to the requested language.
SelectTextEnFirst(tr, key, lang) ==
    IF key \notin DOMAIN tr THEN [path |-> "nokey", val |-> key]
    ELSE LET entry == tr[key]
         IN  IF "en" \in DOMAIN entry THEN [path |-> "en", val |-> entry["en"]]
             ELSE IF lang \in DOMAIN entry THEN [path |-> "lang", val |-> entry[lang]]
             ELSE [path |-> "none", val |-> key]

\* SelectText without the fallback to "en".
SelectTextNoFallback(tr, key, lang) ==
    IF key \notin DOMAIN tr THEN [path |-> "nokey", val |-> key]
    ELSE LET entry == tr[key]
         IN  IF lang \in DOMAIN entry THEN [path |-> "lang", val |-> entry[lang]]
             ELSE [path |-> "none", val |-> key]

\* The text selected for (key, lang) before interpolation, with the path
\* taken: "nokey", "lang", "en" or "none".
SelectText(tr, key, lang) ==
    IF key \notin DOMAIN tr THEN [path |-> "nokey", val |-> key]
    ELSE LET entry == tr[key]
         IN  IF lang \in DOMAIN entry THEN [path |-> "lang", val |-> entry[lang]]
             ELSE IF "en" \in DOMAIN entry THEN [path |-> "en", val |-> entry["en"]]
             ELSE [path |-> "none", val |-> key]

\* i18nTranslate with nested keys resolved in the language the top-level
\* text was found in.
i18nTranslateNestedFollowsText(tr, lg, key, lang, args) ==
    LET sel == SelectText(tr, key, lang)
    IN  CASE sel.path = "nokey" ->
                [out |-> key, err |-> "nil", path |-> sel.path, val |-> sel.val,
                 logs |-> Emit(lg, LogKeyNotFound)]
          [] sel.path = "none" ->
                [out |-> key, err |-> "nil", path |-> sel.path, val |-> sel.val,
                 logs |-> Emit(lg, LogNoTranslation)]
          [] OTHER ->
                [out  |-> IF Len(args) > 0
                          THEN interpolateTranslations(tr, sel.val,
                                   IF sel.path = "en" THEN "en" ELSE lang, args)
                          ELSE sel.val,
                 err  |-> "nil", path |-> sel.path, val |-> sel.val,
                 logs |-> IF sel.path = "en" THEN Emit(lg, LogFallbackEn) ELSE <<>>]

\* i18nTranslate with the fallback to "en" taken silently.
i18nTranslateSilentFallback(tr, lg, key, lang, args) ==
    LET sel == SelectText(tr, key, lang)
    IN  CASE sel.path = "nokey" ->
                [out |-> key, err |-> "nil", path |-> sel.path, val |-> sel.val,
                 logs |-> Emit(lg, LogKeyNotFound)]
          [] sel.path = "none" ->
                [out |-> key, err |-> "nil", path |-> sel.path, val |-> sel.val,
                 logs |-> Emit(lg, LogNoTranslation)]
          [] OTHER ->
                [out  |-> IF Len(args) > 0
                          THEN interpolateTranslations(tr, sel.val, lang, args)
                          ELSE sel.val,
                 err  |-> "nil", path |-> sel.path, val |-> sel.val,
                 logs |-> << >>]

\* The whole call, under the read lock: the returned string, the error
\* value, the log entries written and the text selected.
i18nTranslate(tr, lg, key, lang, args) ==
    LET sel == SelectText(tr, key, lang)
    IN  CASE sel.path = "nokey" ->
                [out |-> key, err |-> "nil", path |-> sel.path, val |-> sel.val,
                 logs |-> Emit(lg, LogKeyNotFound)]
          [] sel.path = "none" ->
                [out |-> key, err |-> "nil", path |-> sel.path, val |-> sel.val,
                 logs |-> Emit(lg, LogNoTranslation)]
          [] OTHER ->
                [out  |-> IF Len(args) > 0
                          THEN interpolateTranslations(tr, sel.val, lang, args)
                          ELSE sel.val,
                 err  |-> "nil", path |-> sel.path, val |-> sel.val,
                 logs |-> IF sel.path = "en" THEN Emit(lg, LogFallbackEn) ELSE <<>>]

-----------------------------------------------------------------------------
(* encoding/json decoding into map[string]map[string]string *)

\* JSON values of a document.
JObj(m) == [t |-> "object", m |-> m]
JStr(s) == [t |-> "string", s |-> s]
JNum == [t |-> "number"]
JBool == [t |-> "bool"]
JArr == [t |-> "array"]
JNull == [t |-> "null"]

\* A leaf decoded into a Go string: a JSON string is stored, null leaves the
\* zero value without an error, any other value leaves the zero value and
\* records an UnmarshalTypeError.
DecodeLeaf(v) ==
    CASE v.t = "string" -> [s |-> v.s, bad |-> FALSE]
      [] v.t = "null"   -> [s |-> EmptyStr, bad |-> FALSE]
      [] OTHER          -> [s |-> EmptyStr, bad |-> TRUE]

\* A member of the top-level object decoded into a map[string]string: the
\* element is stored under its key also when a type error was recorded.
DecodeEntry(v) ==
    CASE v.t = "object" ->
            [m   |-> [l \in DOMAIN v.m |-> DecodeLeaf(v.m[l]).s],
             bad |-> \E l \in DOMAIN v.m : DecodeLeaf(v.m[l]).bad]
      [] v.t = "null"   -> [m |-> EmptyMap, bad |-> FALSE]
      [] OTHER          -> [m |-> EmptyMap, bad |-> TRUE]

\* Decode with an object without members rejected.
DecodeRejectsEmpty(cur, v) ==
    CASE v.t = "object" ->
            [m   |-> [k \in DOMAIN cur \cup DOMAIN v.m |->
                        IF k \in DOMAIN v.m THEN DecodeEntry(v.m[k]).m ELSE cur[k]],
             bad |-> \/ DOMAIN v.m = {}
                     \/ \E k \in DOMAIN v.m : DecodeEntry(v.m[k]).bad]
      [] v.t = "null"   -> [m |-> EmptyMap, bad |-> FALSE]
      [] OTHER          -> [m |-> cur, bad |-> TRUE]

\* decoder.Decode(&i.translations) on a syntactically valid value: cur is
\* the map the pointer refers to, which an object fills and null sets to nil.
Decode(cur, v) ==
    CASE v.t = "object" ->
            [m   |-> [k \in DOMAIN cur \cup DOMAIN v.m |->
                        IF k \in DOMAIN v.m THEN DecodeEntry(v.m[k]).m ELSE cur[k]],
             bad |-> \E k \in DOMAIN v.m : DecodeEntry(v.m[k]).bad]
      [] v.t = "null"   -> [m |-> EmptyMap, bad |-> FALSE]
      [] OTHER          -> [m |-> cur, bad |-> TRUE]

-----------------------------------------------------------------------------
(* Files and loadDictionary *)

\* What the file system holds at the configured path.
FileAbsent == [st |-> "absent"]
FileDenied == [st |-> "denied"]
FileUnreadable == [st |-> "unreadable"]
FileEmpty == [st |-> "empty"]
FileSyntax == [st |-> "syntax"]
FileJSON(v) == [st |-> "json", json |-> v]

\* Error values are chains of wrapped errors, outermost first; nil is <<>>.
NoErr == <<>>
ErrNotFound == <<"dictionary file not found">>
ErrOpen == <<"open: permission denied">>
ErrParse(cause) == <<"failed to parse JSON dictionary", cause>>
ErrLoad(err) == <<"failed to load i18n dictionary">> \o err

\* loadDictionary with a missing file taken for an empty dictionary.
loadDictionaryIgnoresMissing(cur, f) ==
    CASE f.st = "absent"     -> [translations |-> cur, err |-> NoErr]
      [] f.st = "denied"     -> [translations |-> cur, err |-> ErrOpen]
      [] f.st = "unreadable" -> [translations |-> cur, err |-> ErrParse("read: is a directory")]
      [] f.st = "empty"      -> [translations |-> cur, err |-> ErrParse("EOF")]
      [] f.st = "syntax"     -> [translations |-> cur, err |-> ErrParse("json.SyntaxError")]
      [] f.st = "json"       ->
            LET d == Decode(cur, f.json)
            IN  [translations |-> d.m,
                 err |-> IF d.bad THEN ErrParse("json.UnmarshalTypeError") ELSE NoErr]

\* loadDictionary on the file f, with i.translations = cur on entry.
loadDictionary(cur, f) ==
    CASE f.st = "absent"     -> [translations |-> cur, err |-> ErrNotFound]
      [] f.st = "denied"     -> [translations |-> cur, err |-> ErrOpen]
      [] f.st = "unreadable" -> [translations |-> cur, err |-> ErrParse("read: is a directory")]
      [] f.st = "empty"      -> [translations |-> cur, err |-> ErrParse("EOF")]
      [] f.st = "syntax"     -> [translations |-> cur, err |-> ErrParse("json.SyntaxError")]
      [] f.st = "json"       ->
            LET d == Decode(cur, f.json)
            IN  [translations |-> d.m,
                 err |-> IF d.bad THEN ErrParse("json.UnmarshalTypeError") ELSE NoErr]

\* Provision without the initialisation of i.mu.
ProvisionResultNoMutex(dictFile, oldMu, f) ==
    LET fresh == EmptyMap
        ld    == IF dictFile # "" THEN loadDictionary(fresh, f)
                 ELSE [translations |-> fresh, err |-> NoErr]
    IN  [logger       |-> "set",
         mu           |-> oldMu,
         translations |-> ld.translations,
         err          |-> IF ld.err # NoErr THEN ErrLoad(ld.err) ELSE NoErr,
         log          |-> IF dictFile # "" /\ ld.err = NoErr
                          THEN <<"i18n dictionary loaded successfully">> ELSE <<>>]

\* Provision as a function of the instance on entry: the fields it leaves
\* and the error it returns.
ProvisionResult(dictFile, oldMu, f) ==
    LET fresh == EmptyMap
        ld    == IF dictFile # "" THEN loadDictionary(fresh, f)
                 ELSE [translations |-> fresh, err |-> NoErr]
    IN  [logger       |-> "set",
         mu           |-> IF oldMu = "nil" THEN "unlocked" ELSE oldMu,
         translations |-> ld.translations,
         err          |-> IF ld.err # NoErr THEN ErrLoad(ld.err) ELSE NoErr,
         log          |-> IF dictFile # "" /\ ld.err = NoErr
                          THEN <<"i18n dictionary loaded successfully">> ELSE <<>>]

-----------------------------------------------------------------------------
(* UnmarshalCaddyfile *)

\* A block is a sequence of segments; a segment is a property name followed
\* by its arguments on the same line.
ArgErr(prop) == <<"wrong argument count or unexpected line ending", prop>>
ErrUnrecognized(prop) == <<"unrecognized i18n config property", prop>>

\* UnmarshalCaddyfile with properties it does not know skipped.
RECURSIVE UnmarshalSegmentsSkipsUnknown(_, _)
UnmarshalSegmentsSkipsUnknown(dictFile, segs) ==
    IF segs = <<>> THEN [DictFile |-> dictFile, err |-> NoErr]
    ELSE LET seg == Head(segs)
         IN  IF seg[1] = "dict_file"
             THEN IF Len(seg) < 2
                  THEN [DictFile |-> dictFile, err |-> ArgErr(seg[1])]
                  ELSE IF Len(seg) > 2
                       THEN [DictFile |-> seg[2], err |-> ArgErr(seg[3])]
                       ELSE UnmarshalSegmentsSkipsUnknown(seg[2], Tail(segs))
             ELSE UnmarshalSegmentsSkipsUnknown(dictFile, Tail(segs))

\* The loop over the segments of the block, from the instance's DictFile on:
\* the DictFile it leaves and the error it returns.  ArgErr names the token
\* the dispenser is at.
RECURSIVE UnmarshalSegments(_, _)
UnmarshalSegments(dictFile, segs) ==
    IF segs = <<>> THEN [DictFile |-> dictFile, err |-> NoErr]
    ELSE LET seg == Head(segs)
         IN  IF seg[1] = "dict_file"
             THEN IF Len(seg) < 2
                  THEN [DictFile |-> dictFile, err |-> ArgErr(seg[1])]
                  ELSE IF Len(seg) > 2
                       THEN [DictFile |-> seg[2], err |-> ArgErr(seg[3])]
                       ELSE UnmarshalSegments(seg[2], Tail(segs))
             ELSE [DictFile |-> dictFile, err |-> ErrUnrecognized(seg[1])]

-----------------------------------------------------------------------------
(* The inputs: documents, configuration blocks, calls *)

Tok0 == <<"{", "0", "}">>
Tok1 == <<"{", "1", "}">>
Tok5 == <<"{", "5", "}">>
TokBig == <<"{">> \o [n \in 1..20 |-> "9"] \o <<"}">>

\* A dictionary that exercises every path of the resolver:
\*   h    both languages;  e  an empty text and no "en";  g  only "en";
\*   {0}  a key that looks like a placeholder, with neither "de" nor "en";
\*   m,o  several tokens: out of range, repeated, leading zero, too large,
\*        and braces that are not tokens;
\*   g,n  texts that are themselves a placeholder and a nested reference,
\*        the latter to n itself.
DocMain ==
    JObj((<<"h">> :> JObj([de |-> JStr(<<"H">>), en |-> JStr(<<"h">>)])) @@
         (<<"e">> :> JObj([de |-> JStr(EmptyStr)])) @@
         (<<"g">> :> JObj([en |-> JStr(Tok0)])) @@
         (Tok0    :> JObj([it |-> JStr(<<"k">>)])) @@
         (<<"m">> :> JObj([en |-> JStr(<<"v">> \o Tok0 \o <<"w">> \o Tok5),
                           de |-> JStr(Tok0 \o Tok1 \o Tok0)])) @@
         (<<"o">> :> JObj([en |-> JStr(TokBig \o Tok0),
                           de |-> JStr(<<"{", "0", "1", "}", "{", "}", "{", "a", "}", "{">> \o Tok0)])) @@
         (<<"n">> :> JObj([en |-> JStr(Tok1),
                           de |-> JStr(I18nPrefix \o <<"n">>)])))

DocEmpty == JObj(EmptyMap)

\* Documents that are valid JSON of the wrong shape.
DocBadEntry == JObj((<<"h">> :> JObj([en |-> JStr(<<"h">>)])) @@ (<<"g">> :> JNum))
DocBadLeaf == JObj((<<"h">> :> JObj([en |-> JStr(<<"h">>), de |-> JBool])))
DocNullLeaf == JObj((<<"h">> :> JObj([en |-> JStr(<<"h">>), de |-> JNull])))

Files ==
    {FileAbsent, FileDenied, FileUnreadable, FileEmpty, FileSyntax,
     FileJSON(DocMain), FileJSON(DocEmpty), FileJSON(JNull), FileJSON(JArr),
     FileJSON(DocBadEntry), FileJSON(DocBadLeaf), FileJSON(DocNullLeaf)}

\* The file recorded when Provision does not touch the file system.
NoFile == [st |-> "none"]

Blocks ==
    {<< >>,
     << <<"dict_file", "/d.json">> >>,
     << <<"dict_file">> >>,
     << <<"dict_file", "/d.json", "extra">> >>,
     << <<"unknown_prop", "value">> >>,
     << <<"dict_file", "/d.json">>, <<"unknown_prop", "value">> >>}

\* The lines an i18n block is made of, and the blocks of up to MaxSegs lines.
Segments ==
    {<<"dict_file">>, <<"dict_file", "/d.json">>, <<"dict_file", "/e.json">>,
     <<"dict_file", "/d.json", "extra">>, <<"unknown_prop", "value">>}

MaxSegs == 3

AllBlocks == UNION {[1..n -> Segments] : n \in 0..MaxSegs}

Keys == {<<"h">>, <<"e">>, <<"g">>, Tok0, <<"m">>, <<"o">>, <<"n">>, <<"q">>, EmptyStr}

Langs == {"de", "en", "fr"}

ArgValues ==
    {StrArg(<<"z">>), StrArg(Tok1),
     StrArg(I18nPrefix \o <<"g">>),
     StrArg(I18nPrefix \o <<"e">>), StrArg(I18nPrefix \o <<"n">>),
     StrArg(I18nPrefix \o <<"q">>),
     IntArg(500), IntArg(42)}

ArgLists == UNION {[1..n -> ArgValues] : n \in 0..MaxArgs}

-----------------------------------------------------------------------------
(* The instance and its host *)

VARIABLES
    DictFile,       \* i.DictFile
    translations,   \* i.translations
    mu,             \* i.mu: "nil" or "unlocked"
    logger,         \* i.logger: "nil" or "set"
    unmarshal,      \* the last UnmarshalCaddyfile call: its block and error
    provision,      \* the last Provision call: the file it met, its error, its log
    call,           \* the i18nTranslate call whose result the host holds
    threads,        \* the goroutines rendering templates: where each is in i18nTranslate
    rlocked,        \* the goroutines that hold the read lock of i.mu
    writer          \* where a Provision that runs beside them is

vars == <<DictFile, translations, mu, logger, unmarshal, provision, call,
          threads, rlocked, writer>>

\* The goroutines that render templates.
NumThreads == 2

Threads == 1..NumThreads

\* A goroutine outside i18nTranslate.
Idle ==
    [pc |-> "idle", key |-> << >>, lang |-> "", args |-> << >>,
     acquired |-> 0, released |-> 0, raced |-> FALSE, snap |-> EmptyMap,
     val |-> << >>, out |-> << >>]

NoWriter == [pc |-> "idle"]

NoUnmarshal == [done |-> FALSE, block |-> << >>, err |-> NoErr]
NoProvision == [done |-> FALSE, file |-> NoFile, err |-> NoErr, log |-> << >>]
NoCall == [active |-> FALSE]

\* new(I18n): every field has its zero value.
Init ==
    /\ DictFile = ""
    /\ translations = EmptyMap
    /\ mu = "nil"
    /\ logger = "nil"
    /\ unmarshal = NoUnmarshal
    /\ provision = NoProvision
    /\ call = NoCall
    /\ threads = [t \in Threads |-> Idle]
    /\ rlocked = {}
    /\ writer = NoWriter

\* The host parses the i18n block of the Caddyfile, once, before provisioning.
UnmarshalCaddyfile(block) ==
    /\ ~unmarshal.done
    /\ ~provision.done
    /\ LET r == UnmarshalSegments(DictFile, block)
       IN  /\ DictFile' = r.DictFile
           /\ unmarshal' = [done |-> TRUE, block |-> block, err |-> r.err]
    /\ UNCHANGED <<translations, mu, logger, provision, call>>
    /\ UNCHANGED <<threads, rlocked, writer>>

\* The host provisions the instance; f is what the file system holds at
\* DictFile.  A configuration that failed to parse is never provisioned.
Provision(f) ==
    /\ unmarshal.err = NoErr
    /\ ~call.active
    /\ LET r == ProvisionResult(DictFile, mu, f)
       IN  /\ logger' = r.logger
           /\ mu' = r.mu
           /\ translations' = r.translations
           /\ provision' = [done |-> TRUE,
                            file |-> IF DictFile # "" THEN f ELSE NoFile,
                            err  |-> r.err,
                            log  |-> r.log]
    /\ UNCHANGED <<DictFile, unmarshal, call>>
    /\ UNCHANGED <<threads, rlocked, writer>>

\* What the host holds after i18nTranslate(key, lang, args...).  RLock on a
\* nil mutex is a nil-pointer dereference: the call panics.
CallResult(tr, m, lg, key, lang, args) ==
    IF m = "nil"
    THEN [active |-> TRUE, key |-> key, lang |-> lang, args |-> args,
          panicked |-> TRUE]
    ELSE LET r == i18nTranslate(tr, lg, key, lang, args)
         IN  [active |-> TRUE, key |-> key, lang |-> lang, args |-> args,
              panicked |-> FALSE, out |-> r.out, err |-> r.err,
              path |-> r.path, val |-> r.val, logs |-> r.logs]

\* Translate with misses remembered in the dictionary.
TranslateCaching ==
    /\ provision.done
    /\ ~call.active
    /\ \E key \in Keys, lang \in Langs, args \in ArgLists :
           /\ call' = CallResult(translations, mu, logger, key, lang, args)
           /\ translations' = IF key \in DOMAIN translations THEN translations
                               ELSE (key :> (lang :> key)) @@ translations
    /\ UNCHANGED <<DictFile, mu, logger, unmarshal, provision>>
    /\ UNCHANGED <<threads, rlocked, writer>>

\* A template calls i18nTranslate; the host does so only on an instance it
\* has provisioned.
Translate ==
    /\ provision.done
    /\ ~call.active
    /\ \E key \in Keys, lang \in Langs, args \in ArgLists :
           call' = CallResult(translations, mu, logger, key, lang, args)
    /\ UNCHANGED <<DictFile, translations, mu, logger, unmarshal, provision>>
    /\ UNCHANGED <<threads, rlocked, writer>>

\* The template makes the call it has just made once more, with the same
\* key, language and arguments.
Repeat ==
    /\ call.active
    /\ call' = CallResult(translations, mu, logger, call.key, call.lang, call.args)
    /\ UNCHANGED <<DictFile, translations, mu, logger, unmarshal, provision>>
    /\ UNCHANGED <<threads, rlocked, writer>>

\* The template engine takes the result and goes on rendering.
Return ==
    /\ call.active
    /\ call' = NoCall
    /\ UNCHANGED <<DictFile, translations, mu, logger, unmarshal, provision>>
    /\ UNCHANGED <<threads, rlocked, writer>>

Next ==
    \/ \E block \in Blocks : UnmarshalCaddyfile(block)
    \/ \E f \in Files : Provision(f)
    \/ Translate
    \/ Repeat
    \/ Return

Spec == Init /\ [][Next]_vars

\* The configuration alone: the host parses one i18n block.
NextConfig == \E block \in AllBlocks : UnmarshalCaddyfile(block)

SpecConfig == Init /\ [][NextConfig]_vars

-----------------------------------------------------------------------------
(* i18nTranslate step by step, on several goroutines *)

\* The calls the goroutines make, one for each way i18nTranslate returns:
\* key absent, no translation available, no arguments, interpolated result
\* with a nested key.
ConcCalls ==
    {[key |-> <<"q">>, lang |-> "de", args |-> << >>],
     [key |-> <<"e">>, lang |-> "en", args |-> << >>],
     [key |-> <<"h">>, lang |-> "de", args |-> << >>],
     [key |-> <<"g">>, lang |-> "de", args |-> <<StrArg(I18nPrefix \o <<"h">>)>>]}

ConcFiles == {FileJSON(DocMain), FileAbsent}

\* The runtime has stopped the process: fatal error, concurrent map read and
\* map write.
Crashed == \E t \in Threads : threads[t].pc = "crashed"

AllIdle == \A t \in Threads : threads[t].pc = "idle"

\* i.mu.RLock() on entry; no goroutine ever holds or awaits the write lock,
\* so the read lock is granted at once.
RLock(t) ==
    /\ provision.done
    /\ mu # "nil"
    /\ ~Crashed
    /\ threads[t].pc = "idle"
    /\ \E c \in ConcCalls :
           threads' = [threads EXCEPT ![t] =
                          [Idle EXCEPT !.pc = "locked", !.key = c.key,
                                       !.lang = c.lang, !.args = c.args,
                                       !.acquired = 1, !.snap = translations]]
    /\ rlocked' = rlocked \cup {t}
    /\ UNCHANGED <<DictFile, translations, mu, logger, unmarshal, provision,
                   call, writer>>

\* The dictionary a read of i.translations may observe: the field as it is,
\* or, when a write to it is not ordered after the goroutine took the lock,
\* the map the goroutine found on entry.
Views(t) ==
    IF threads[t].raced THEN {translations, threads[t].snap}
    ELSE {translations}

\* The top-level lookup; it returns the key or the text at once, or goes on
\* to interpolate.
Lookup(t) ==
    /\ ~Crashed
    /\ threads[t].pc = "locked"
    /\ \E view \in Views(t) :
           LET th  == threads[t]
               sel == SelectText(view, th.key, th.lang)
           IN  threads' = [threads EXCEPT ![t] =
                   IF sel.path \in {"nokey", "none"}
                   THEN [th EXCEPT !.pc = "returning", !.out = th.key]
                   ELSE IF Len(th.args) = 0
                        THEN [th EXCEPT !.pc = "returning", !.val = sel.val,
                                        !.out = sel.val]
                        ELSE [th EXCEPT !.pc = "interpolating", !.val = sel.val]]
    /\ UNCHANGED <<DictFile, translations, mu, logger, unmarshal, provision,
                   call, rlocked, writer>>

\* interpolateTranslations, nested lookups included, with the read lock the
\* call took on entry.
Interpolate(t) ==
    /\ ~Crashed
    /\ threads[t].pc = "interpolating"
    /\ \E view \in Views(t) :
           LET th == threads[t]
           IN  threads' = [threads EXCEPT ![t] =
                   [th EXCEPT !.pc = "returning",
                              !.out = interpolateTranslations(view, th.val,
                                                              th.lang, th.args)]]
    /\ UNCHANGED <<DictFile, translations, mu, logger, unmarshal, provision,
                   call, rlocked, writer>>

\* The return with the lock kept.
RUnlockKeepsLock(t) ==
    /\ ~Crashed
    /\ threads[t].pc = "returning"
    /\ threads' = [threads EXCEPT ![t].pc = "returned"]
    /\ UNCHANGED <<DictFile, translations, mu, logger, unmarshal, provision,
                   call, rlocked, writer>>

\* The deferred i.mu.RUnlock(), on the way out of every return.
RUnlock(t) ==
    /\ ~Crashed
    /\ threads[t].pc = "returning"
    /\ threads' = [threads EXCEPT ![t].pc = "returned", ![t].released = 1]
    /\ rlocked' = rlocked \ {t}
    /\ UNCHANGED <<DictFile, translations, mu, logger, unmarshal, provision,
                   call, writer>>

\* The template engine takes the result; the goroutine is free for the next
\* call.
Collect(t) ==
    /\ ~Crashed
    /\ threads[t].pc = "returned"
    /\ threads' = [threads EXCEPT ![t] = Idle]
    /\ UNCHANGED <<DictFile, translations, mu, logger, unmarshal, provision,
                   call, rlocked, writer>>

\* The goroutines that are inside their read sections have now read or are
\* about to read a dictionary that is written without the lock.
MarkRaced ==
    [t \in Threads |->
        IF t \in rlocked THEN [threads[t] EXCEPT !.raced = TRUE] ELSE threads[t]]

\* Provision up to the replacement of the map: no lock is taken.
ProvisionBegin(f) ==
    /\ unmarshal.err = NoErr
    /\ ~Crashed
    /\ writer.pc = "idle"
    /\ LET r == ProvisionResult(DictFile, mu, f)
       IN  /\ logger' = r.logger
           /\ mu' = r.mu
    /\ translations' = EmptyMap
    /\ writer' = [pc |-> "loading", file |-> f]
    /\ threads' = MarkRaced
    /\ UNCHANGED <<DictFile, unmarshal, provision, call, rlocked>>

\* The rest of Provision: loadDictionary fills the map, still without the
\* lock, and Provision returns.
ProvisionLoad ==
    /\ ~Crashed
    /\ writer.pc = "loading"
    /\ LET r == ProvisionResult(DictFile, mu, writer.file)
       IN  /\ translations' = r.translations
           /\ provision' = [done |-> TRUE,
                            file |-> IF DictFile # "" THEN writer.file ELSE NoFile,
                            err  |-> r.err,
                            log  |-> r.log]
    /\ writer' = NoWriter
    /\ threads' = MarkRaced
    /\ UNCHANGED <<DictFile, mu, logger, unmarshal, call, rlocked>>

\* A read of the map while it is written: the runtime may detect it and
\* stop the process.
Fault(t) ==
    /\ ~Crashed
    /\ threads[t].pc \in {"locked", "interpolating"}
    /\ threads[t].raced
    /\ threads' = [threads EXCEPT ![t].pc = "crashed"]
    /\ UNCHANGED <<DictFile, translations, mu, logger, unmarshal, provision,
                   call, rlocked, writer>>

\* Provision and template calls in any interleaving on one instance.
NextConc ==
    \/ \E block \in Blocks : UnmarshalCaddyfile(block)
    \/ \E f \in ConcFiles : ProvisionBegin(f)
    \/ ProvisionLoad
    \/ \E t \in Threads : RLock(t)
    \/ \E t \in Threads : Lookup(t)
    \/ \E t \in Threads : Interpolate(t)
    \/ \E t \in Threads : RUnlock(t)
    \/ \E t \in Threads : Collect(t)
    \/ \E t \in Threads : Fault(t)

SpecConc == Init /\ [][NextConc]_vars

\* The host's lifecycle: an instance is provisioned while no template is
\* being rendered on it, then serves concurrent calls.
QuietProvision(f) == AllIdle /\ Provision(f)

NextCalls ==
    \/ \E block \in Blocks : UnmarshalCaddyfile(block)
    \/ \E f \in ConcFiles : QuietProvision(f)
    \/ \E t \in Threads : RLock(t)
    \/ \E t \in Threads : Lookup(t)
    \/ \E t \in Threads : Interpolate(t)
    \/ \E t \in Threads : RUnlock(t)
    \/ \E t \in Threads : Collect(t)

SpecCalls == Init /\ [][NextCalls]_vars

-----------------------------------------------------------------------------
(* What the properties are stated with: placeholders described by their    *)
(* shape, not by the scan                                                  *)

\* A call has returned to the host.
Returned == call.active /\ ~call.panicked

\* The placeholders of s: every <<i, j>> with s[i] = "{", s[j] = "}" and one
\* or more digits, and nothing else, in between.
Spans(s) ==
    {sp \in (1..Len(s)) \X (1..Len(s)) :
        /\ s[sp[1]] = "{"
        /\ s[sp[2]] = "}"
        /\ sp[2] > sp[1] + 1
        /\ \A k \in (sp[1] + 1)..(sp[2] - 1) : IsDigit(s[k])}

HasToken(s) == Spans(s) # {}

\* The digit string ds, leading zeros allowed, is the decimal numeral of n.
Denotes(ds, n) ==
    \E k \in 0..(Len(ds) - 1) :
        /\ \A i \in 1..k : ds[i] = "0"
        /\ SubSeq(ds, k + 1, Len(ds)) = NatDigits(n)

\* The index a digit string names in an argument list of length n, or -1.
IndexOf(ds, n) ==
    IF \E i \in 0..(n - 1) : Denotes(ds, i)
    THEN CHOOSE i \in 0..(n - 1) : Denotes(ds, i)
    ELSE -1

\* The translation of a nested key: requested language, then "en", then the
\* key itself.
NestedText(tr, lang, k) ==
    IF k \in DOMAIN tr /\ lang \in DOMAIN tr[k] THEN tr[k][lang]
    ELSE IF k \in DOMAIN tr /\ "en" \in DOMAIN tr[k] THEN tr[k]["en"]
    ELSE k

IsNested(arg) ==
    /\ arg.kind = "string"
    /\ Len(arg.s) >= 5
    /\ \A i \in 1..5 : arg.s[i] = I18nPrefix[i]

\* The text an argument stands for.
Rendered(tr, lang, arg) ==
    IF IsNested(arg) THEN NestedText(tr, lang, SubSeq(arg.s, 6, Len(arg.s)))
    ELSE IF arg.kind = "string" THEN arg.s
    ELSE Sprint(arg)

\* What position p of the template s contributes to the output.
Piece(tr, lang, args, s, p) ==
    IF \E sp \in Spans(s) : sp[1] = p
    THEN LET sp == CHOOSE x \in Spans(s) : x[1] = p
             n  == IndexOf(SubSeq(s, p + 1, sp[2] - 1), Len(args))
         IN  IF n >= 0 THEN Rendered(tr, lang, args[n + 1])
             ELSE SubSeq(s, p, sp[2])
    ELSE IF \E sp \in Spans(s) : sp[1] < p /\ p <= sp[2] THEN <<>>
    ELSE <<s[p]>>

RECURSIVE PiecesFrom(_, _, _, _, _)
PiecesFrom(tr, lang, args, s, p) ==
    IF p > Len(s) THEN <<>>
    ELSE Piece(tr, lang, args, s, p) \o PiecesFrom(tr, lang, args, s, p + 1)

\* The text with every in-range placeholder replaced, once.
Substituted(tr, lang, args, s) == PiecesFrom(tr, lang, args, s, 1)

-----------------------------------------------------------------------------
(* Properties *)

\* C1: a key that is absent from the dictionary is returned unchanged, with a
\* nil error, whatever the language and the arguments; it is not
\* interpolated, and the empty key yields the empty string.
C1_MissingKeyReturnsKey ==
    (Returned /\ call.key \notin DOMAIN translations)
        => /\ call.out = call.key
           /\ call.err = "nil"
           /\ (call.key = EmptyStr => call.out = EmptyStr)

\* A missing key that is itself a placeholder, called with an argument.
C1_Witness ==
    /\ Returned
    /\ call.key = Tok0
    /\ call.key \notin DOMAIN translations
    /\ Len(call.args) > 0
    /\ call.out = Tok0

\* C2: when the key is present and its locale map has the requested
\* language, the selected text is the stored text of that language; without
\* arguments, or when the stored text has no placeholder, the stored text is
\* also what is returned.
C2_RequestedLanguageText ==
    (Returned /\ call.key \in DOMAIN translations
              /\ call.lang \in DOMAIN translations[call.key])
        => LET stored == translations[call.key][call.lang]
           IN  /\ call.val = stored
               /\ call.err = "nil"
               /\ (Len(call.args) = 0 \/ ~HasToken(stored)) => call.out = stored

\* An empty stored text, no "en" entry, and an argument supplied.
C2_Witness ==
    /\ Returned
    /\ call.key = <<"e">>
    /\ call.key \in DOMAIN translations
    /\ call.lang = "de"
    /\ "en" \notin DOMAIN translations[call.key]
    /\ Len(call.args) > 0
    /\ call.out = EmptyStr

\* C3: when the key is present without the requested language, the "en" text
\* is used and interpolated with the arguments; without "en" either, the key
\* is returned as it is.  The error is nil in both cases.
C3_EnglishFallback ==
    (Returned /\ call.key \in DOMAIN translations
              /\ call.lang \notin DOMAIN translations[call.key])
        => LET entry == translations[call.key]
           IN  /\ call.err = "nil"
               /\ "en" \in DOMAIN entry =>
                     /\ call.val = entry["en"]
                     /\ call.out = IF Len(call.args) = 0 THEN entry["en"]
                                   ELSE Substituted(translations, call.lang,
                                                    call.args, entry["en"])
               /\ "en" \notin DOMAIN entry => call.out = call.key

\* The "en" text of g stands in for "fr" and receives the argument.
C3_Witness ==
    /\ Returned
    /\ call.key = <<"g">>
    /\ call.key \in DOMAIN translations
    /\ call.lang = "fr"
    /\ call.args = <<StrArg(<<"z">>)>>
    /\ call.out = <<"z">>

\* C4: every call the host makes returns a string and a nil error; it never
\* panics, whatever the key, the language and the arguments, and whatever
\* Provision left behind.
C4_TranslateIsTotal ==
    call.active
        => /\ ~call.panicked
           /\ call.err = "nil"
           /\ DOMAIN call.out = 1..Len(call.out)

\* Missing language, unknown nested key and out-of-range placeholder in one
\* call.
C4_Witness ==
    /\ Returned
    /\ call.key = <<"m">>
    /\ call.lang = "fr"
    /\ call.args = <<StrArg(I18nPrefix \o <<"q">>)>>
    /\ call.out = <<"v", "q", "w">> \o Tok5

\* C5: interpolation replaces every placeholder whose number is an index of
\* the argument list by the text of that argument, and leaves every other
\* placeholder, and all text outside placeholders, as written.
C5_PlaceholderSubstitution ==
    (Returned /\ call.path \in {"lang", "en"} /\ Len(call.args) > 0)
        => call.out = Substituted(translations, call.lang, call.args, call.val)

\* A number too large for an int next to an index in range.
C5_Witness ==
    /\ Returned
    /\ call.val = TokBig \o Tok0
    /\ call.args = <<StrArg(<<"z">>)>>
    /\ call.out = TokBig \o <<"z">>

\* The call selected a text with exactly one placeholder, and its number is
\* an index of the argument list.
OneTokenInRange ==
    /\ Returned
    /\ call.path \in {"lang", "en"}
    /\ Len(call.args) > 0
    /\ Cardinality(Spans(call.val)) = 1
    /\ LET sp == CHOOSE x \in Spans(call.val) : TRUE
       IN  IndexOf(SubSeq(call.val, sp[1] + 1, sp[2] - 1), Len(call.args)) >= 0

\* With OneTokenInRange: the text before the placeholder, the argument it
\* names, the text after it.
TokenPre == SubSeq(call.val, 1, (CHOOSE x \in Spans(call.val) : TRUE)[1] - 1)
TokenPost ==
    SubSeq(call.val, (CHOOSE x \in Spans(call.val) : TRUE)[2] + 1, Len(call.val))
TokenArg ==
    LET sp == CHOOSE x \in Spans(call.val) : TRUE
    IN  call.args[IndexOf(SubSeq(call.val, sp[1] + 1, sp[2] - 1), Len(call.args)) + 1]

\* C6: an argument "i18n:<k>" stands for the translation of k in the language
\* the caller requested, whether the top-level text came from that language
\* or from "en": k's text for the requested language, else its "en" text,
\* else k itself (also when k is not in the dictionary).
C6_NestedKeyResolution ==
    (OneTokenInRange /\ IsNested(TokenArg))
        => LET k  == SubSeq(TokenArg.s, 6, Len(TokenArg.s))
               tr == translations
           IN  /\ (k \in DOMAIN tr /\ call.lang \in DOMAIN tr[k])
                     => call.out = TokenPre \o tr[k][call.lang] \o TokenPost
               /\ (k \in DOMAIN tr /\ call.lang \notin DOMAIN tr[k]
                                   /\ "en" \in DOMAIN tr[k])
                     => call.out = TokenPre \o tr[k]["en"] \o TokenPost
               /\ (k \notin DOMAIN tr
                     \/ (call.lang \notin DOMAIN tr[k] /\ "en" \notin DOMAIN tr[k]))
                     => call.out = TokenPre \o k \o TokenPost

\* The top-level text of g is its "en" fallback, the nested key n has "de".
C6_Witness ==
    /\ OneTokenInRange
    /\ call.key = <<"g">>
    /\ call.lang = "de"
    /\ call.path = "en"
    /\ call.args = <<StrArg(I18nPrefix \o <<"n">>)>>
    /\ call.out = I18nPrefix \o <<"n">>

\* C7: the text inserted for a placeholder is not scanned again: a
\* placeholder or an "i18n:" prefix inside it is in the output as it is.
C7_SinglePass ==
    (OneTokenInRange
        /\ LET ins == Rendered(translations, call.lang, TokenArg)
           IN  HasToken(ins) \/ IsNested(StrArg(ins)))
        => call.out = TokenPre \o Rendered(translations, call.lang, TokenArg)
                               \o TokenPost

\* The argument is the placeholder {1}, and there is an argument 1.
C7_Witness ==
    /\ OneTokenInRange
    /\ call.val = Tok0
    /\ call.args = <<StrArg(Tok1), StrArg(<<"z">>)>>
    /\ call.out = Tok1

\* The number a string of digits denotes.
RECURSIVE DigitsValue(_, _)
DigitsValue(ds, acc) ==
    IF ds = <<>> THEN acc ELSE DigitsValue(Tail(ds), acc * 10 + DigitVal(Head(ds)))

\* p is the decimal numeral of n >= 0 without leading zeros.
IsDecimalOf(p, n) ==
    /\ Len(p) >= 1
    /\ \A i \in 1..Len(p) : IsDigit(p[i])
    /\ Len(p) = 1 \/ p[1] # "0"
    /\ Len(p) <= 9
    /\ DigitsValue(p, 0) = n

\* p is what the argument a, not a nested reference, is to be inserted as.
InsertedAs(p, a) == IF a.kind = "string" THEN p = a.s ELSE IsDecimalOf(p, a.n)

\* C8: a string argument without the prefix is inserted as it is, an integer
\* as its decimal numeral; the arguments of one call are rendered each by its
\* own rule, at the positions that name them.
C8_ArgumentRendering ==
    /\ (OneTokenInRange /\ ~IsNested(TokenArg))
          => /\ Len(call.out) >= Len(TokenPre) + Len(TokenPost)
             /\ SubSeq(call.out, 1, Len(TokenPre)) = TokenPre
             /\ SubSeq(call.out, Len(call.out) - Len(TokenPost) + 1, Len(call.out))
                   = TokenPost
             /\ InsertedAs(SubSeq(call.out, Len(TokenPre) + 1,
                                  Len(call.out) - Len(TokenPost)), TokenArg)
    /\ (Returned /\ call.path \in {"lang", "en"} /\ call.val = Tok0 \o Tok1 \o Tok0
                 /\ Len(call.args) >= 2
                 /\ ~IsNested(call.args[1]) /\ ~IsNested(call.args[2]))
          => \E la, lb \in 0..Len(call.out) :
                /\ la + lb + la = Len(call.out)
                /\ InsertedAs(SubSeq(call.out, 1, la), call.args[1])
                /\ InsertedAs(SubSeq(call.out, la + 1, la + lb), call.args[2])
                /\ InsertedAs(SubSeq(call.out, la + lb + 1, Len(call.out)),
                              call.args[1])

\* An integer and a string in one call, the integer named twice.
C8_Witness ==
    /\ Returned
    /\ call.val = Tok0 \o Tok1 \o Tok0
    /\ call.args = <<IntArg(500), StrArg(<<"z">>)>>
    /\ call.out = <<"5", "0", "0", "z", "5", "0", "0">>

\* The innermost error of a chain, and the three kinds of load error.
Cause(err) == err[Len(err)]
IsNotFoundErr(err) == err # NoErr /\ Cause(err) = "dictionary file not found"
IsParseErr(err) == err # NoErr /\ Cause(err) \in {"json.SyntaxError", "EOF"}
IsReadErr(err) ==
    err # NoErr /\ Cause(err) \in {"open: permission denied", "read: is a directory"}

C10_EmptyDictionary ==
    (provision.done /\ (DictFile = "" \/ provision.file = FileJSON(DocEmpty)))
        => /\ provision.err = NoErr
           /\ DOMAIN translations = {}
           /\ Returned => (call.out = call.key /\ call.err = "nil")

\* A call with an argument against the dictionary loaded from "{}".
C10_Witness ==
    /\ provision.done
    /\ DictFile = "/d.json"
    /\ provision.file = FileJSON(DocEmpty)
    /\ Returned
    /\ call.key = <<"h">>
    /\ Len(call.args) > 0
    /\ call.out = <<"h">>

\* A document of the shape the dictionary has: an object of objects of
\* strings.
WellShaped(v) ==
    /\ v.t = "object"
    /\ \A k \in DOMAIN v.m :
          /\ v.m[k].t = "object"
          /\ \A l \in DOMAIN v.m[k].m : v.m[k].m[l].t = "string"

\* C11: a document that is valid JSON but not an object of objects of
\* strings makes Provision return a parse error.
C11_ShapeErrors ==
    (provision.done /\ DictFile # "" /\ provision.file.st = "json"
                    /\ ~WellShaped(provision.file.json))
        => /\ provision.err # NoErr
           /\ Cause(provision.err) = "json.UnmarshalTypeError"

\* A line of the block that UnmarshalCaddyfile accepts.
GoodSegment(seg) == seg[1] = "dict_file" /\ Len(seg) = 2

ExpectedLogs(tr, key, lang) ==
    IF key \notin DOMAIN tr THEN <<LogKeyNotFound>>
    ELSE IF lang \in DOMAIN tr[key] THEN << >>
    ELSE IF "en" \in DOMAIN tr[key] THEN <<LogFallbackEn>>
    ELSE <<LogNoTranslation>>

C15_StatelessRead ==
    [][call'.active
          => /\ translations' = translations
             /\ DictFile' = DictFile
             /\ (call.active /\ ~call.panicked)
                   => /\ ~call'.panicked
                      /\ call'.out = call.out]_vars

\* A call that falls back to "en", resolves a nested key that is missing and
\* leaves a placeholder out of range, with the dictionary as it was loaded.
C15_Witness ==
    /\ Returned
    /\ call.key = <<"m">>
    /\ call.lang = "fr"
    /\ call.args = <<StrArg(I18nPrefix \o <<"q">>)>>
    /\ call.out = <<"v", "q", "w">> \o Tok5
    /\ translations = Decode(EmptyMap, DocMain).m
    /\ DictFile = "/d.json"

\* The entries a well-shaped document holds.
Entries(v) ==
    [k \in DOMAIN v.m |-> [l \in DOMAIN v.m[k].m |-> v.m[k].m[l].s]]

\* C17: after a successful Provision the dictionary holds exactly the
\* entries of the configured document (none without a dict_file); after a
\* Provision that returns an error it holds no entries, and every later
\* call returns its key.
C17_RebuildFromScratch ==
    provision.done
        => /\ (provision.err = NoErr /\ DictFile = "")
                 => translations = EmptyMap
           /\ (provision.err = NoErr /\ provision.file.st = "json"
                                     /\ WellShaped(provision.file.json))
                 => translations = Entries(provision.file.json)
           /\ provision.err # NoErr
                 => /\ DOMAIN translations = {}
                    /\ Returned => call.out = call.key

\* C14: while Provision is between replacing the map and having filled it,
\* no goroutine is inside the read section of i18nTranslate.
C14_WriteExclusion ==
    writer.pc = "loading" => rlocked = {}

\* The goroutines inside i18nTranslate with the read lock in hand.
InSection(t) == threads[t].pc \in {"locked", "interpolating", "returning"}

\* How far a goroutine is from having released the read lock.
Rank(pc) ==
    CASE pc = "locked" -> 3
      [] pc = "interpolating" -> 2
      [] pc = "returning" -> 1
      [] OTHER -> 0

====
